---- MODULE Spec2Model ----
(***************************************************************************)
(* The sharded company registry of direct-sales/: the bucketing function,  *)
(* the Partitioner (split_companies_by_organisation_form_and_letter.py),   *)
(* the Merger (merge_new_brreg_dump_into_existing.py) and the Reporter     *)
(* (show_company_database_statistics.py), over a file tree                 *)
(* companies/<ORG_FORM>/<LETTER>.csv.                                      *)
(*                                                                         *)
(* Strings that the code inspects character by character (names, letter   *)
(* buckets) are sequences of Unicode code points.  Organisation-form codes *)
(* are only compared and sorted as wholes and are TLA+ strings.  Registry  *)
(* numbers are naturals standing for their decimal strings: the model      *)
(* takes every number cell to be a well-formed number, which read_csv,     *)
(* astype(str) and to_csv carry through unchanged, and every shard file to *)
(* have a number column.  Of a row's columns the model keeps the number,   *)
(* the name, the form and the bankruptcy flag; the other carried columns   *)
(* (hjemmeside, telefon, ...) steer nothing.                               *)
(***************************************************************************)
EXTENDS Integers, Sequences, FiniteSets, TLC

\* ---------------------------------------------------------------- bounds
MaxNum == 2
MaxDump == 2
MaxRuns == 2
MaxFaults == 1
MaxNameLen == 2
MaxLongDump == 3

VARIABLES fs, run, runs, faults, probe, mergers

vars == <<fs, run, runs, faults, probe, mergers>>

\* ------------------------------------------------------- cells and strings
\* A name cell as pandas hands it over: a str, a missing value (NaN), or a
\* number (a column holding nothing but numbers).
Str(s) == [kind |-> "str", s |-> s]
NaNCell == [kind |-> "nan", s |-> <<>>]
NumCell == [kind |-> "num", s |-> <<>>]

\* A missing organisation-form cell, and the form column of a row written
\* without one.
NaNForm == "NaN"

UNKNOWN == <<85, 78, 75, 78, 79, 87, 78>>
OTHER_KEY == <<79, 84, 72, 69, 82>>

\* str.upper() of one character (Unicode full case mapping, for Basic Latin,
\* Latin-1 and the three further characters of Alphabet).
Upper(c) ==
  CASE c \in 97..122 -> <<c - 32>>
    [] c = 181 -> <<924>>
    [] c = 223 -> <<83, 83>>
    [] c \in (224..254) \ {247} -> <<c - 32>>
    [] c = 255 -> <<376>>
    [] c = 305 -> <<73>>
    [] c = 383 -> <<83>>
    [] OTHER -> <<c>>

\* Python's s <= t on str: lexicographic by code point.
RECURSIVE StrLe(_, _)
StrLe(s, t) ==
  IF s = <<>> THEN TRUE
  ELSE IF t = <<>> THEN FALSE
  ELSE IF Head(s) < Head(t) THEN TRUE
  ELSE IF Head(s) > Head(t) THEN FALSE
  ELSE StrLe(Tail(s), Tail(t))

\* ------------------------------------------------------ bucketing function
\* split_companies_by_organisation_form_and_letter.py
get_letter_bucket_for_company_name(name) ==
  IF name.kind # "str" \/ name.s = <<>> THEN OTHER_KEY
  ELSE LET first_char == Upper(name.s[1])
       IN IF StrLe(<<65>>, first_char) /\ StrLe(first_char, <<90>>)
          THEN first_char
          ELSE OTHER_KEY

\* merge_new_brreg_dump_into_existing.py (its own copy of the function)
merge_get_letter_bucket_for_company_name(name) ==
  IF name.kind # "str" \/ name.s = <<>> THEN OTHER_KEY
  ELSE LET first_char == Upper(name.s[1])
       IN IF StrLe(<<65>>, first_char) /\ StrLe(first_char, <<90>>)
          THEN first_char
          ELSE OTHER_KEY

\* ------------------------------------------------------------------ inputs
COL_FORM == "organisasjonsform.kode"
COL_NAVN == "navn"
COL_NUM == "organisasjonsnummer"
COL_KONKURS == "konkurs"
AllColumns == {COL_FORM, COL_NAVN, COL_NUM, COL_KONKURS}

Nums == 1..MaxNum
NameCells == {Str(<<97>>), Str(<<223>>), NaNCell}
FormCells == {"AS", "NUF"}

DumpRows == [num : Nums, navn : NameCells, form : FormCells, konkurs : BOOLEAN]

SeqsUpTo(S, n) == UNION {[1..k -> S] : k \in 0..n}

\* The dump files a run may be given.  A dump without a konkurs column has
\* no flag to read (its rows carry FALSE); a dump that lacks a required
\* column is taken header-only.
NoFile == [exists |-> FALSE, cols |-> {}, rows |-> <<>>]
Dumps ==
  {[exists |-> TRUE, cols |-> AllColumns, rows |-> rs] :
     rs \in SeqsUpTo(DumpRows, MaxDump)}
  \cup {[exists |-> TRUE, cols |-> AllColumns \ {COL_KONKURS}, rows |-> rs] :
          rs \in SeqsUpTo({r \in DumpRows : ~r.konkurs}, MaxDump)}
  \cup {[exists |-> TRUE, cols |-> AllColumns \ {c}, rows |-> <<>>] :
          c \in {COL_FORM, COL_NAVN, COL_NUM}}
  \cup {NoFile}

\* ------------------------------------------------------------- file system
\* fs.root: companies/ exists; fs.dirs: the organisation-form directories;
\* fs.files: path <<form, letter>> -> [rows, mode].  mode "ok" reads and
\* writes; "denied" (no permission) keeps its rows but raises on open;
\* "corrupt" (not parseable) raises on read_csv and can be overwritten.
EmptyFs == [root |-> FALSE, dirs |-> {}, files |-> <<>>]

Paths(f) == DOMAIN f.files

mkdir(f, form) == [f EXCEPT !.root = TRUE, !.dirs = @ \cup {form}]

PutFile_keeping_prior(f, path, rows) ==
  [f EXCEPT !.files =
     [p \in DOMAIN @ \cup {path} |->
        IF p = path
        THEN [rows |-> (IF p \in DOMAIN @ THEN @[p].rows ELSE <<>>) \o rows,
              mode |-> "ok"]
        ELSE @[p]]]

PutFile(f, path, rows) ==
  [f EXCEPT !.files =
     [p \in DOMAIN @ \cup {path} |->
        IF p = path THEN [rows |-> rows, mode |-> "ok"] ELSE @[p]]]

\* sorted() of a set of organisation-form codes.
FormOrder == <<"AS", "ENK", "FLI", "NUF", "UNKNOWN">>
SortedForms(S) == SelectSeq(FormOrder, LAMBDA f : f \in S)

SeqToSet(s) == {s[i] : i \in DOMAIN s}

\* dict keys in insertion order: each key at its first occurrence.
RECURSIVE InsertionOrder(_)
InsertionOrder(ks) ==
  IF ks = <<>> THEN <<>>
  ELSE LET init == InsertionOrder(SubSeq(ks, 1, Len(ks) - 1))
           k == ks[Len(ks)]
       IN IF k \in SeqToSet(init) THEN init ELSE Append(init, k)

\* sorted() of a sequence of distinct strings.
RECURSIVE SortedKeys(_)
SortedKeys(ks) ==
  IF ks = <<>> THEN <<>>
  ELSE LET m == CHOOSE i \in DOMAIN ks : \A j \in DOMAIN ks : StrLe(ks[i], ks[j])
       IN <<ks[m]>> \o SortedKeys(SelectSeq(ks, LAMBDA k : k # ks[m]))

\* The rows of a sequence that satisfy a condition keep their order.
RowsOfForm(rows, form) == SelectSeq(rows, LAMBDA r : r.form = form)

\* One step of a run's write loop: the mkdir of an organisation-form
\* directory, or the write of one letter's rows.
MkdirStep(form) == [op |-> "mkdir", form |-> form, letter |-> <<>>, rows |-> <<>>]
WriteStep(form, letter, rows) ==
  [op |-> "write", form |-> form, letter |-> letter, rows |-> rows]

NoReport == [lines |-> <<>>, companies |-> 0, files |-> 0]
Outcome(f, exit, count) == [fs |-> f, exit |-> exit, count |-> count]

\* ------------------------------------------------------------- Partitioner
fillna_form(c) == IF c = NaNForm THEN "UNKNOWN" ELSE c
fillna_navn(c) == IF c.kind = "nan" THEN Str(UNKNOWN) ELSE c

split_missing_columns(d) == {COL_FORM, COL_NAVN} \ d.cols

split_clean(rows) ==
  [i \in DOMAIN rows |->
     [rows[i] EXCEPT !.form = fillna_form(@), !.navn = fillna_navn(@)]]

allowed_organisation_forms == {"ENK", "AS", "FLI"}

split_filter_forms(rows) ==
  SelectSeq(rows, LAMBDA r : r.form \in allowed_organisation_forms)

split_filter_konkurs_forgotten(d, rows) == rows

split_filter_konkurs(d, rows) ==
  IF COL_KONKURS \in d.cols
  THEN SelectSeq(rows, LAMBDA r : r.konkurs # TRUE)
  ELSE rows

\* The rows the Partitioner writes, in dump order.
split_companies_dataframe(d) ==
  split_filter_konkurs(d, split_filter_forms(split_clean(d.rows)))

\* letter_dataframe[available_columns]: the form and konkurs columns are
\* not among the output columns.
split_output_row(r) == [num |-> r.num, navn |-> r.navn, form |-> NaNForm]

split_letter_rows(rows, letter) ==
  LET mine == SelectSeq(rows,
                LAMBDA r : get_letter_bucket_for_company_name(r.navn) = letter)
  IN [i \in DOMAIN mine |-> split_output_row(mine[i])]

\* companies_by_letter of one organisation form, then sorted(items()).
split_form_steps(rows, form) ==
  LET in_form == RowsOfForm(rows, form)
      letters == SortedKeys(InsertionOrder(
                   [i \in DOMAIN in_form |->
                      get_letter_bucket_for_company_name(in_form[i].navn)]))
  IN <<MkdirStep(form)>> \o
     [i \in DOMAIN letters |->
        WriteStep(form, letters[i], split_letter_rows(in_form, letters[i]))]

RECURSIVE split_steps(_, _)
split_steps(rows, forms) ==
  IF forms = <<>> THEN <<>>
  ELSE split_form_steps(rows, Head(forms)) \o split_steps(rows, Tail(forms))

\* The loop over organisation forms and letters; count is
\* total_files_created.  to_csv on a file that may not be opened raises.
RECURSIVE split_write_loop(_, _, _)
split_write_loop(f, steps, count) ==
  IF steps = <<>> THEN Outcome(f, "ok", count)
  ELSE LET s == Head(steps)
           path == <<s.form, s.letter>>
       IN IF s.op = "mkdir"
          THEN split_write_loop(mkdir(f, s.form), Tail(steps), count)
          ELSE IF path \in Paths(f) /\ f.files[path].mode = "denied"
          THEN Outcome(f, "crash", count)
          ELSE split_write_loop(PutFile(f, path, s.rows), Tail(steps), count + 1)

split_brreg_dump_into_subdivided_csvs(f, d) ==
  IF ~d.exists THEN Outcome(f, "error", 0)
  ELSE IF split_missing_columns(d) # {} THEN Outcome(f, "error", 0)
  ELSE LET rows == split_companies_dataframe(d)
           forms == SortedForms({rows[i].form : i \in DOMAIN rows})
       IN split_write_loop(f, split_steps(rows, forms), 0)

\* ------------------------------------------------------------------ Merger
merge_missing_columns(d) == {COL_FORM, COL_NAVN, COL_NUM} \ d.cols

\* fillna of form and name; astype(str) leaves a well-formed number as it is.
merge_clean(rows) ==
  [i \in DOMAIN rows |->
     [rows[i] EXCEPT !.form = fillna_form(@), !.navn = fillna_navn(@)]]

merge_filter_konkurs_forgotten(d, rows) == rows

merge_filter_konkurs(d, rows) ==
  IF COL_KONKURS \in d.cols
  THEN SelectSeq(rows, LAMBDA r : r.konkurs # TRUE)
  ELSE rows

merge_new_companies_dataframe(d) == merge_filter_konkurs(d, merge_clean(d.rows))

\* A file read_csv raises on is warned about and skipped.
load_all_existing_organisation_numbers(f) ==
  UNION {{f.files[p].rows[i].num : i \in DOMAIN f.files[p].rows} :
           p \in {q \in Paths(f) : q[1] \in f.dirs /\ f.files[q].mode = "ok"}}

companies_to_add(f, d) ==
  LET existing_organisation_numbers == load_all_existing_organisation_numbers(f)
  IN SelectSeq(merge_new_companies_dataframe(d),
               LAMBDA r : r.num \notin existing_organisation_numbers)

\* to_csv of the dump's rows: every dump column is written, the form too.
merge_output_row(r) == [num |-> r.num, navn |-> r.navn, form |-> r.form]

merge_letter_rows(rows, letter) ==
  LET mine == SelectSeq(rows,
                LAMBDA r : merge_get_letter_bucket_for_company_name(r.navn) = letter)
  IN [i \in DOMAIN mine |-> merge_output_row(mine[i])]

\* companies_by_letter of one organisation form, in the dict's own order.
merge_form_steps(rows, form) ==
  LET in_form == RowsOfForm(rows, form)
      letters == InsertionOrder(
                   [i \in DOMAIN in_form |->
                      merge_get_letter_bucket_for_company_name(in_form[i].navn)])
  IN <<MkdirStep(form)>> \o
     [i \in DOMAIN letters |->
        WriteStep(form, letters[i], merge_letter_rows(in_form, letters[i]))]

RECURSIVE merge_steps(_, _)
merge_steps(rows, forms) ==
  IF forms = <<>> THEN <<>>
  ELSE merge_form_steps(rows, Head(forms)) \o merge_steps(rows, Tail(forms))

\* pd.concat([existing, new]) written back, or the new rows as a new file.
merge_append(f, path, rows) ==
  IF path \in Paths(f)
  THEN PutFile(f, path, f.files[path].rows \o rows)
  ELSE PutFile(f, path, rows)

\* The loop over organisation forms and letters; count is
\* total_companies_added.  read_csv of an existing target is not guarded.
RECURSIVE merge_write_loop(_, _, _)
merge_write_loop(f, steps, count) ==
  IF steps = <<>> THEN Outcome(f, "ok", count)
  ELSE LET s == Head(steps)
           path == <<s.form, s.letter>>
       IN IF s.op = "mkdir"
          THEN merge_write_loop(mkdir(f, s.form), Tail(steps), count)
          ELSE IF path \in Paths(f) /\ f.files[path].mode # "ok"
          THEN Outcome(f, "crash", count)
          ELSE merge_write_loop(merge_append(f, path, s.rows), Tail(steps),
                                count + Len(s.rows))

merge_input_error_no_directory_check(f, d) ==
  \/ ~d.exists
  \/ merge_missing_columns(d) # {}

merge_input_error(f, d) ==
  \/ ~d.exists
  \/ ~f.root
  \/ merge_missing_columns(d) # {}

merge_new_companies_into_existing_structure(f, d) ==
  IF merge_input_error(f, d) THEN Outcome(f, "error", 0)
  ELSE LET rows == companies_to_add(f, d)
           forms == SortedForms({rows[i].form : i \in DOMAIN rows})
       IN IF Len(rows) = 0 THEN Outcome(f, "ok", 0)
          ELSE merge_write_loop(f, merge_steps(rows, forms), 0)

\* ---------------------------------------------------------------- Reporter
\* sys.argv[1].upper() for the arguments of ReporterArgs ("" is no argument).
ReporterArgs == {"", "AS", "as", "NUF", "ENK"}
ArgUpper(a) == IF a = "as" THEN "AS" ELSE a

RECURSIVE SumCounts(_)
SumCounts(items) ==
  IF items = <<>> THEN 0 ELSE Head(items).count + SumCounts(Tail(items))

\* sorted(items, key=count, reverse=True): stable, largest count first.
RECURSIVE SortedByCount(_)
SortedByCount(items) ==
  IF items = <<>> THEN <<>>
  ELSE LET m == CHOOSE i \in DOMAIN items :
                  /\ \A j \in DOMAIN items : items[j].count <= items[i].count
                  /\ \A j \in 1..(i - 1) : items[j].count < items[i].count
       IN <<items[m]>> \o
          SortedByCount([k \in 1..(Len(items) - 1) |->
                           IF k < m THEN items[k] ELSE items[k + 1]])

\* One organisation form's pass over its csv files: the letters counted
\* (read_csv succeeded), and the line printed for the form.
stats_csv_files(f, form) ==
  SortedKeys(InsertionOrder(
    LET ps == {p \in Paths(f) : p[1] = form}
        RECURSIVE AsSeq(_)
        AsSeq(S) == IF S = {} THEN <<>>
                    ELSE LET x == CHOOSE y \in S : TRUE
                         IN <<x[2]>> \o AsSeq(S \ {x})
    IN AsSeq(ps)))

stats_form_line(f, form) ==
  LET csv_files == stats_csv_files(f, form)
      readable == SelectSeq(csv_files, LAMBDA l : f.files[<<form, l>>].mode = "ok")
      companies_per_letter_bucket ==
        [i \in DOMAIN readable |->
           [letter |-> readable[i], count |-> Len(f.files[<<form, readable[i]>>].rows)]]
      sorted_letter_buckets == SortedByCount(companies_per_letter_bucket)
  IN [form |-> form,
      total |-> SumCounts(companies_per_letter_bucket),
      files |-> Len(csv_files),
      counted |-> Len(readable),
      buckets |-> companies_per_letter_bucket,
      top |-> SubSeq(sorted_letter_buckets, 1,
                     IF Len(sorted_letter_buckets) < 5
                     THEN Len(sorted_letter_buckets) ELSE 5)]

\* The loop over organisation-form directories.  The percentage of a
\* bucket divides by the form's total.
RECURSIVE stats_loop(_, _, _)
stats_loop(f, forms, rep) ==
  IF forms = <<>> THEN [exit |-> "ok", report |-> rep]
  ELSE LET line == stats_form_line(f, Head(forms))
       IN IF line.files = 0 THEN stats_loop(f, Tail(forms), rep)
          ELSE LET rep2 == [lines |-> Append(rep.lines, line),
                            companies |-> rep.companies + line.total,
                            files |-> rep.files + line.counted]
               IN IF line.total = 0 /\ line.buckets # <<>>
                  THEN [exit |-> "crash", report |-> rep2]
                  ELSE stats_loop(f, Tail(forms), rep2)

stats_input_error(f, arg) ==
  \/ ~f.root
  \/ arg # "" /\ ArgUpper(arg) \notin f.dirs

display_company_database_statistics(f, arg) ==
  IF stats_input_error(f, arg) THEN [exit |-> "error", report |-> NoReport]
  ELSE stats_loop(f,
                  IF arg # "" THEN <<ArgUpper(arg)>> ELSE SortedForms(f.dirs),
                  NoReport)

\* -------------------------------------------------------------- the system
NoRun ==
  [op |-> "none", dump |-> NoFile, arg |-> "", pre |-> EmptyFs, exit |-> "ok",
   count |-> 0, rerun |-> FALSE, report |-> NoReport]

Idle == [name |-> Str(<<>>), out |-> <<>>, by |-> ""]

\* Merger processes that run at the same time against one tree.  A
\* process is at one place of the script (pc), holds the dump it loaded,
\* the files its scan has still to read (toscan), the numbers the scan has
\* collected (existing), the writes it has still to do (todo) and the rows
\* it read from the target it is about to rewrite (read).  wrote and stale
\* record history for the properties: the rows the process has written,
\* with their paths, and the paths it wrote over content that was no longer
\* what it had read.
Procs == {1, 2}

IdleMerger ==
  [pc |-> "idle", exit |-> "ok", rows |-> <<>>, toscan |-> {}, existing |-> {},
   todo |-> <<>>, read |-> <<>>, count |-> 0, wrote |-> {}, stale |-> {}]

NoMergers == [p \in Procs |-> IdleMerger]

Init ==
  /\ mergers = NoMergers
  /\ fs = EmptyFs
  /\ run = NoRun
  /\ runs = 0
  /\ faults = 0
  /\ probe = Idle

Partitioner(d) ==
  /\ runs < MaxRuns
  /\ run.op = "none"
  /\ LET r == split_brreg_dump_into_subdivided_csvs(fs, d)
     IN /\ fs' = r.fs
        /\ run' = [NoRun EXCEPT !.op = "partition", !.dump = d, !.pre = fs,
                                !.exit = r.exit, !.count = r.count]
  /\ runs' = runs + 1
  /\ UNCHANGED <<faults, probe, mergers>>

Merger(d) ==
  /\ runs < MaxRuns
  /\ run.op = "none"
  /\ LET r == merge_new_companies_into_existing_structure(fs, d)
     IN /\ fs' = r.fs
        /\ run' = [NoRun EXCEPT !.op = "merge", !.dump = d, !.pre = fs,
                                !.exit = r.exit, !.count = r.count]
  /\ runs' = runs + 1
  /\ UNCHANGED <<faults, probe, mergers>>

\* The Merger run once more, right after a Merger run, with the same dump.
MergerAgain ==
  /\ run.op = "merge"
  /\ ~run.rerun
  /\ LET r == merge_new_companies_into_existing_structure(fs, run.dump)
     IN /\ fs' = r.fs
        /\ run' = [run EXCEPT !.pre = fs, !.exit = r.exit, !.count = r.count,
                              !.rerun = TRUE]
  /\ UNCHANGED <<runs, faults, probe, mergers>>

Reporter(arg) ==
  /\ runs < MaxRuns
  /\ run.op = "none"
  /\ LET r == display_company_database_statistics(fs, arg)
     IN run' = [NoRun EXCEPT !.op = "report", !.arg = arg, !.pre = fs,
                             !.exit = r.exit, !.report = r.report]
  /\ runs' = runs + 1
  /\ UNCHANGED <<fs, faults, probe, mergers>>

\* The script's process has ended: what it held in memory is gone, the
\* tree stays.
Return ==
  /\ run.op # "none"
  /\ run' = NoRun
  /\ UNCHANGED <<fs, runs, faults, probe, mergers>>

\* The environment takes the permissions of a shard file away: it can no
\* longer be opened.
DenyFile(path) ==
  /\ faults < MaxFaults
  /\ run.op = "none"
  /\ path \in Paths(fs)
  /\ fs.files[path].mode = "ok"
  /\ fs' = [fs EXCEPT !.files[path].mode = "denied"]
  /\ run' = NoRun
  /\ faults' = faults + 1
  /\ UNCHANGED <<runs, probe, mergers>>

\* The environment leaves a shard file with content that is no CSV.
CorruptFile(path) ==
  /\ faults < MaxFaults
  /\ run.op = "none"
  /\ path \in Paths(fs)
  /\ fs.files[path].mode = "ok"
  /\ fs' = [fs EXCEPT !.files[path] = [rows |-> <<>>, mode |-> "corrupt"]]
  /\ run' = NoRun
  /\ faults' = faults + 1
  /\ UNCHANGED <<runs, probe, mergers>>

Next ==
  \/ \E d \in Dumps : Partitioner(d)
  \/ \E d \in Dumps : Merger(d)
  \/ MergerAgain
  \/ Return
  \/ \E arg \in ReporterArgs : Reporter(arg)
  \/ \E path \in Paths(fs) : DenyFile(path)
  \/ \E path \in Paths(fs) : CorruptFile(path)

Spec == Init /\ [][Next]_vars

\* ------------------------------------------------------- longer dumps
\* The Partitioner and the Merger on longer dumps of one kind: every
\* column present, every row of form AS and not flagged bankrupt.
LongDumps ==
  {[exists |-> TRUE, cols |-> AllColumns, rows |-> rs] :
     rs \in SeqsUpTo([num : Nums, navn : NameCells, form : {"AS"}, konkurs : {FALSE}],
                     MaxLongDump)}

LongNext ==
  \/ \E d \in LongDumps : Partitioner(d)
  \/ \E d \in LongDumps : Merger(d)
  \/ MergerAgain
  \/ Return
  \/ \E path \in Paths(fs) : DenyFile(path)
  \/ \E path \in Paths(fs) : CorruptFile(path)

LongSpec == Init /\ [][LongNext]_vars

\* ------------------------------------------- the bucketing function alone
Alphabet == {49, 64, 65, 90, 91, 97, 122, 216, 223, 229, 305, 383}

BucketInputs ==
  {Str(s) : s \in SeqsUpTo(Alphabet, MaxNameLen)} \cup {NaNCell, NumCell}

BucketInit ==
  /\ mergers = NoMergers
  /\ fs = EmptyFs
  /\ run = NoRun
  /\ runs = 0
  /\ faults = 0
  /\ probe \in {[name |-> n, out |-> <<>>, by |-> ""] : n \in BucketInputs}

SplitBucket ==
  /\ probe.by = ""
  /\ probe' = [probe EXCEPT !.out = get_letter_bucket_for_company_name(probe.name),
                            !.by = "split"]
  /\ UNCHANGED <<fs, run, runs, faults, mergers>>

MergeBucket ==
  /\ probe.by = ""
  /\ probe' = [probe EXCEPT
                 !.out = merge_get_letter_bucket_for_company_name(probe.name),
                 !.by = "merge"]
  /\ UNCHANGED <<fs, run, runs, faults, mergers>>

BucketNext == SplitBucket \/ MergeBucket

BucketSpec == BucketInit /\ [][BucketNext]_vars

\* ------------------------------------------- Merger runs at the same time
\* Merger processes interleaved against one tree, one shard-file read or
\* one shard-file rewrite at a step.  The tree is one the Partitioner has
\* written; dumps and trees are of form AS.
MaxRaceNum == 3
MaxRaceDump == 1

RaceRows ==
  [num : 1..MaxRaceNum, navn : {Str(<<97>>), NaNCell}, form : {"AS"},
   konkurs : {FALSE}]

RaceDumps ==
  {[exists |-> TRUE, cols |-> AllColumns, rows |-> rs] :
     rs \in SeqsUpTo(RaceRows, MaxRaceDump)} \cup {NoFile}

RaceTrees ==
  {split_brreg_dump_into_subdivided_csvs(EmptyFs, d).fs : d \in RaceDumps \ {NoFile}}

RaceInit ==
  /\ mergers = NoMergers
  /\ fs \in RaceTrees
  /\ run = NoRun
  /\ runs = 0
  /\ faults = 0
  /\ probe = Idle

\* The input checks, the load of the dump, and the listing of the tree's
\* shard files the scan is about to read.
Start(p, d) ==
  /\ mergers[p].pc = "idle"
  /\ mergers' =
       IF merge_input_error(fs, d)
       THEN [mergers EXCEPT ![p].pc = "done", ![p].exit = "error"]
       ELSE [mergers EXCEPT ![p].pc = "scan",
                            ![p].rows = merge_new_companies_dataframe(d),
                            ![p].toscan = {q \in Paths(fs) : q[1] \in fs.dirs}]
  /\ UNCHANGED <<fs, run, runs, faults, probe>>

\* One read_csv of the scan: the file's numbers join the set; a file that
\* cannot be read is warned about and skipped.
ScanRead(p, path) ==
  /\ mergers[p].pc = "scan"
  /\ path \in mergers[p].toscan
  /\ mergers' =
       [mergers EXCEPT
          ![p].toscan = @ \ {path},
          ![p].existing =
             @ \cup (IF fs.files[path].mode = "ok"
                     THEN {fs.files[path].rows[i].num : i \in DOMAIN fs.files[path].rows}
                     ELSE {})]
  /\ UNCHANGED <<fs, run, runs, faults, probe>>

\* The scan is over: the rows whose number it did not find are grouped by
\* organisation form and letter; with none of them the run ends.
Filter(p) ==
  /\ mergers[p].pc = "scan"
  /\ mergers[p].toscan = {}
  /\ LET companies_to_add_now ==
           SelectSeq(mergers[p].rows, LAMBDA r : r.num \notin mergers[p].existing)
         forms == SortedForms({companies_to_add_now[i].form :
                                 i \in DOMAIN companies_to_add_now})
     IN mergers' =
          IF Len(companies_to_add_now) = 0
          THEN [mergers EXCEPT ![p].pc = "done"]
          ELSE [mergers EXCEPT ![p].pc = "write",
                               ![p].todo = merge_steps(companies_to_add_now, forms)]
  /\ UNCHANGED <<fs, run, runs, faults, probe>>

\* mkdir(parents=True, exist_ok=True) of the next organisation form.
MakeDir(p) ==
  /\ mergers[p].pc = "write"
  /\ Head(mergers[p].todo).op = "mkdir"
  /\ fs' = mkdir(fs, Head(mergers[p].todo).form)
  /\ mergers' = [mergers EXCEPT ![p].todo = Tail(@)]
  /\ UNCHANGED <<run, runs, faults, probe>>

\* csv_file_path.exists() and, for a file that exists, the read_csv of it.
ReadTarget(p) ==
  /\ mergers[p].pc = "write"
  /\ Head(mergers[p].todo).op = "write"
  /\ LET s == Head(mergers[p].todo)
         path == <<s.form, s.letter>>
     IN mergers' =
          IF path \notin Paths(fs)
          THEN [mergers EXCEPT ![p].pc = "create", ![p].read = <<>>]
          ELSE IF fs.files[path].mode # "ok"
          THEN [mergers EXCEPT ![p].pc = "done", ![p].exit = "crash"]
          ELSE [mergers EXCEPT ![p].pc = "rewrite", ![p].read = fs.files[path].rows]
  /\ UNCHANGED <<fs, run, runs, faults, probe>>

to_csv_new_rows_only(f, path, existing_rows, new_rows) == PutFile(f, path, new_rows)

\* pd.concat([existing, new]).to_csv(path), or the new rows' to_csv(path).
to_csv(f, path, existing_rows, new_rows) == PutFile(f, path, existing_rows \o new_rows)

\* The file as a process saw it, and as it is.
Seen(p) == [exists |-> mergers[p].pc = "rewrite", rows |-> mergers[p].read]
Now(path) ==
  [exists |-> path \in Paths(fs),
   rows |-> IF path \in Paths(fs) THEN fs.files[path].rows ELSE <<>>]

\* The to_csv of the rows read before followed by the new rows.
WriteTarget(p) ==
  /\ mergers[p].pc \in {"rewrite", "create"}
  /\ LET s == Head(mergers[p].todo)
         path == <<s.form, s.letter>>
     IN /\ fs' = to_csv(fs, path, mergers[p].read, s.rows)
        /\ mergers' =
             [mergers EXCEPT
                ![p].pc = IF Tail(mergers[p].todo) = <<>> THEN "done" ELSE "write",
                ![p].todo = Tail(@),
                ![p].read = <<>>,
                ![p].count = @ + Len(s.rows),
                ![p].wrote = @ \cup {<<path, s.rows[i]>> : i \in DOMAIN s.rows},
                ![p].stale = IF Seen(p) # Now(path)
                             THEN @ \cup {<<path, mergers[p].pc>>} ELSE @]
  /\ UNCHANGED <<run, runs, faults, probe>>

RaceNext ==
  \E p \in Procs :
    \/ \E d \in RaceDumps : Start(p, d)
    \/ \E path \in Paths(fs) : ScanRead(p, path)
    \/ Filter(p)
    \/ MakeDir(p)
    \/ ReadTarget(p)
    \/ WriteTarget(p)

RaceSpec == RaceInit /\ [][RaceNext]_vars

\* ================================================================== claims
NumsIn(f, p) == {f.files[p].rows[i].num : i \in DOMAIN f.files[p].rows}

RowsWithNum(f, n) ==
  {<<p, i>> \in UNION {{<<q, j>> : j \in DOMAIN f.files[q].rows} : q \in Paths(f)} :
     f.files[p].rows[i].num = n}

StoredNums(f) == UNION {NumsIn(f, p) : p \in Paths(f)}

\* The shard key as the specification defines it: the first character of the
\* name uppercased when it is an ASCII letter, the overflow key otherwise.
AsciiLetters == (65..90) \cup (97..122)
SpecBucket(name) ==
  IF name.kind = "str" /\ name.s # <<>> /\ name.s[1] \in AsciiLetters
  THEN <<IF name.s[1] >= 97 THEN name.s[1] - 32 ELSE name.s[1]>>
  ELSE OTHER_KEY

Keys27 == {<<c>> : c \in 65..90} \cup {OTHER_KEY}

\* A dump row's flag counts when the dump has a konkurs column.
Bankrupt(d, r) == COL_KONKURS \in d.cols /\ r.konkurs

NameOf(r) == IF r.navn.kind = "nan" THEN Str(UNKNOWN) ELSE r.navn
FormOf(r) == IF r.form = NaNForm THEN "UNKNOWN" ELSE r.form

\* C1: in every tree reached by Partitioner and Merger runs alone, a
\* registry number is held by at most one shard file.
C1_GlobalUniqueness ==
  faults = 0 =>
    \A p \in Paths(fs), q \in Paths(fs) :
      p # q => NumsIn(fs, p) \cap NumsIn(fs, q) = {}

\* C2: a Merger run adds no row with a number that some shard file already
\* held before the run: the tree holds as many rows with it after as before.
C2_NoDuplicateOfStored ==
  run.op = "merge" =>
    \A n \in StoredNums(run.pre) :
      Cardinality(RowsWithNum(fs, n)) = Cardinality(RowsWithNum(run.pre, n))

\* C3: the Merger run a second time with the same dump leaves the tree as
\* the first run left it and adds zero rows.
C3_MergeIdempotent ==
  (run.op = "merge" /\ run.rerun) => (fs = run.pre /\ run.count = 0)

\* The shard a dump row belongs to: (form, bucket(name)), the bucket as the
\* script's own bucketing function gives it.
SplitKey(r) == <<FormOf(r), get_letter_bucket_for_company_name(NameOf(r))>>
MergeKey(r) == <<FormOf(r), merge_get_letter_bucket_for_company_name(NameOf(r))>>

\* The file at a path holds a dump row (as the Partitioner writes it).
Holds(f, p, r) ==
  /\ p \in Paths(f)
  /\ \E i \in DOMAIN f.files[p].rows :
       /\ f.files[p].rows[i].num = r.num
       /\ f.files[p].rows[i].navn = NameOf(r)

\* C4 as stated: after a Partitioner run on an empty tree every row of the
\* dump is in exactly one shard file, the one at (form, bucket(name)).
C4_EveryRowPlaced ==
  (run.op = "partition" /\ Paths(run.pre) = {}) =>
    \A i \in DOMAIN run.dump.rows :
      LET r == run.dump.rows[i]
      IN /\ Holds(fs, SplitKey(r), r)
         /\ \A p \in Paths(fs) : Holds(fs, p, r) => p = SplitKey(r)

\* The rows of a dump the Partitioner keeps: form ENK, AS or FLI, and not
\* flagged bankrupt.
Kept(d) ==
  SelectSeq(d.rows, LAMBDA r : FormOf(r) \in {"ENK", "AS", "FLI"} /\ ~Bankrupt(d, r))

KeptAt(d, p) ==
  LET mine == SelectSeq(Kept(d), LAMBDA r : SplitKey(r) = p)
  IN [i \in DOMAIN mine |->
        [num |-> mine[i].num, navn |-> NameOf(mine[i]), form |-> NaNForm]]

\* C4 amended: after a Partitioner run on an empty tree that passes input
\* validation, every kept row (form ENK, AS or FLI, not flagged bankrupt) is
\* in exactly one shard file, the one at (form, bucket(name)): each shard
\* file holds exactly the kept rows of its key, in dump order, and the
\* other rows are written nowhere.
C4_KeptRowsPlaced ==
  (run.op = "partition" /\ Paths(run.pre) = {} /\ run.exit = "ok") =>
    /\ \A p \in Paths(fs) :
         fs.files[p].rows = KeptAt(run.dump, p) /\ KeptAt(run.dump, p) # <<>>
    /\ \A i \in DOMAIN Kept(run.dump) : SplitKey(Kept(run.dump)[i]) \in Paths(fs)

\* C4 witness: a run on an empty tree that kept a row and dropped a
\* bankrupt row and a row of another form.
C4_Witness ==
  /\ run.op = "partition"
  /\ Paths(run.pre) = {}
  /\ run.exit = "ok"
  /\ Paths(fs) # {}
  /\ \E i \in DOMAIN run.dump.rows :
       Bankrupt(run.dump, run.dump.rows[i]) \/ run.dump.rows[i].form = "NUF"

\* C5: the bucketing function returns one of the 27 keys: the uppercased
\* initial for an ASCII-letter initial, the overflow key for every other
\* name.
C5_BucketContract ==
  probe.by # "" => (probe.out \in Keys27 /\ probe.out = SpecBucket(probe.name))

\* A required input of the last run was missing.
MissingInput ==
  \/ /\ run.op = "partition"
     /\ ~run.dump.exists \/ ~({COL_FORM, COL_NAVN} \subseteq run.dump.cols)
  \/ /\ run.op = "merge"
     /\ \/ ~run.dump.exists
        \/ ~run.pre.root
        \/ ~({COL_FORM, COL_NAVN, COL_NUM} \subseteq run.dump.cols)
  \/ /\ run.op = "report"
     /\ ~run.pre.root \/ (run.arg # "" /\ ArgUpper(run.arg) \notin run.pre.dirs)

\* C6: a run whose required input is missing ends in the non-zero-exit
\* error state and leaves the tree exactly as it was.
C6_MissingInputTouchesNothing ==
  MissingInput => (run.exit = "error" /\ fs = run.pre)

\* C6 witness: a Merger run on a tree with shard files, given a dump with
\* no registry-number column, has ended in the error state.
C6_Witness ==
  /\ run.op = "merge"
  /\ run.pre.root
  /\ Paths(run.pre) # {}
  /\ run.dump.exists
  /\ COL_NUM \notin run.dump.cols
  /\ run.exit = "error"

\* C7: a Merger run on a tree with an unreadable shard file, given all its
\* required inputs, reaches its normal end.
C7_UnreadableNeverFatal ==
  (/\ run.op = "merge"
   /\ ~MissingInput
   /\ \E p \in Paths(run.pre) : run.pre.files[p].mode # "ok")
    => run.exit = "ok"

RECURSIVE SumSeq(_)
SumSeq(ns) == IF ns = <<>> THEN 0 ELSE Head(ns) + SumSeq(Tail(ns))

\* C8: the Reporter's figures add up: each form's total is the sum of its
\* counted shard files' rows, the grand row total is the sum of the forms'
\* totals, the grand file total is the sum of the forms' printed file counts.
C8_ReportAddsUp ==
  (run.op = "report" /\ run.exit = "ok") =>
    /\ \A i \in DOMAIN run.report.lines :
         LET line == run.report.lines[i]
         IN line.total =
              SumSeq([k \in DOMAIN line.buckets |->
                        Len(run.pre.files[<<line.form, line.buckets[k].letter>>].rows)])
    /\ run.report.companies =
         SumSeq([i \in DOMAIN run.report.lines |-> run.report.lines[i].total])
    /\ run.report.files =
         SumSeq([i \in DOMAIN run.report.lines |-> run.report.lines[i].files])

\* The candidate rows of the last run's dump: not flagged bankrupt, number
\* in no readable shard file of the tree before the run; as the Merger
\* writes them.
Candidates ==
  LET known == UNION {NumsIn(run.pre, p) :
                        p \in {q \in Paths(run.pre) : run.pre.files[q].mode = "ok"}}
      rows == SelectSeq(run.dump.rows,
                LAMBDA r : ~Bankrupt(run.dump, r) /\ r.num \notin known)
  IN [i \in DOMAIN rows |->
        [num |-> rows[i].num, navn |-> NameOf(rows[i]), form |-> FormOf(rows[i])]]

CandidatesAt(p) == SelectSeq(Candidates, LAMBDA r : MergeKey(r) = p)

\* C9: every shard file that existed before a Merger run and is the target
\* of a candidate row holds, after the run, its previous rows in their
\* previous order followed by its candidate rows in dump order.
C9_AppendInOrder ==
  (run.op = "merge" /\ ~MissingInput) =>
    \A p \in Paths(run.pre) :
      CandidatesAt(p) # <<>> =>
        fs.files[p].rows = run.pre.files[p].rows \o CandidatesAt(p)

Replaced(p) ==
  /\ p \in Paths(fs)
  /\ KeptAt(run.dump, p) # <<>>
  /\ fs.files[p] = [rows |-> KeptAt(run.dump, p), mode |-> "ok"]

\* The shard file at a path is as it was before the last run.
Untouched(p) ==
  /\ p \in Paths(run.pre)
  /\ p \in Paths(fs)
  /\ fs.files[p] = run.pre.files[p]

\* The keys that have a kept row in the last run's dump.
KeptKeys == {SplitKey(Kept(run.dump)[i]) : i \in DOMAIN Kept(run.dump)}

\* C12 as stated: after a Partitioner run over a tree with prior content,
\* every key with a kept row has its file replaced by the run's rows of the
\* key, and every other shard file of the tree is as it was.
C12_ReplacesKeyedFiles ==
  (run.op = "partition" /\ Paths(run.pre) # {}) =>
    /\ \A p \in KeptKeys : Replaced(p)
    /\ \A p \in Paths(run.pre) \ KeptKeys : Untouched(p)

\* C12 amended: a Partitioner run over a tree with prior content deletes no
\* shard file and leaves each one either replaced by the run's rows of its
\* key or as it was; a file whose key has no kept row is as it was; and a
\* run that is not aborted by a failing write replaces the file of every
\* key with a kept row.
C12_OverwriteFrame ==
  (run.op = "partition" /\ Paths(run.pre) # {}) =>
    /\ Paths(run.pre) \subseteq Paths(fs)
    /\ \A p \in Paths(fs) : Replaced(p) \/ Untouched(p)
    /\ \A p \in Paths(run.pre) \ KeptKeys : Untouched(p)
    /\ run.exit # "crash" => \A p \in KeptKeys : Replaced(p)

\* C12 witness: a completed run that replaced a file whose prior rows were
\* other rows, and left another file with rows as it was.
C12_Witness ==
  /\ run.op = "partition"
  /\ run.exit = "ok"
  /\ \E p \in Paths(run.pre) :
       /\ Replaced(p)
       /\ run.pre.files[p].rows # <<>>
       /\ run.pre.files[p].rows # fs.files[p].rows
  /\ \E q \in Paths(run.pre) \ KeptKeys :
       Untouched(q) /\ fs.files[q].rows # <<>>

\* A dump row as the Merger writes it.
Written(r) == [num |-> r.num, navn |-> NameOf(r), form |-> FormOf(r)]

\* The rows of the last run's dump that are not flagged bankrupt and whose
\* number no shard file of the tree held before the run.
Unseen ==
  SelectSeq(run.dump.rows,
            LAMBDA r : ~Bankrupt(run.dump, r) /\ r.num \notin StoredNums(run.pre))

\* C13: a Merger run given its required inputs adds every unseen,
\* non-bankrupt row of the dump, whatever its organisation form, to the
\* shard file at (form of the row, bucket(name of the row)) and to no other,
\* and the directory of the form exists afterwards.
C13_AddsEveryUnseenRow ==
  (run.op = "merge" /\ ~run.rerun /\ ~MissingInput) =>
    \A i \in DOMAIN Unseen :
      LET r == Unseen[i]
      IN /\ FormOf(r) \in fs.dirs
         /\ MergeKey(r) \in Paths(fs)
         /\ Written(r) \in SeqToSet(fs.files[MergeKey(r)].rows)
         /\ \A p \in Paths(fs) \ {MergeKey(r)} :
              Written(r) \notin SeqToSet(fs.files[p].rows)

\* The rows a process wrote that its file no longer holds.
Lost(p) ==
  {w \in mergers[p].wrote : w[2] \notin SeqToSet(fs.files[w[1]].rows)}

\* C11: Merger runs interleaved against one tree can lose an update, and
\* only in one way: whenever a row that a run wrote to a shard file is
\* missing from that file, another run has rewritten the file from what it
\* had seen of it earlier (a read, or the check that the file was absent).
C11_LostOnlyByStaleRewrite ==
  \A p \in Procs : \A w \in Lost(p) :
    \E q \in Procs \ {p} : \E k \in {"rewrite", "create"} :
      <<w[1], k>> \in mergers[q].stale

\* C11 witness: both runs have reached their normal end, and a row that one
\* of them wrote is missing from its file, which the other rewrote from an
\* earlier read.
C11_Witness ==
  /\ \A p \in Procs : mergers[p].pc = "done" /\ mergers[p].exit = "ok"
  /\ \E p \in Procs : \E w \in Lost(p) : \E q \in Procs \ {p} :
       <<w[1], "rewrite">> \in mergers[q].stale
====
